---- MODULE Spec2Model ----
(***************************************************************************)
(* Model of hanshan/train_wsdm_pl.py: the script-level run of main()       *)
(* (argument checks, set-up, the epoch / batch loop with gradient          *)
(* accumulation and loss-scale back-off, the final call of tune) and the   *)
(* function tune() with its shared tune_losses list.                       *)
(*                                                                         *)
(* The model covers the single-process run (local_rank == -1).  The        *)
(* network, the optimizer arithmetic and the checkpoint files are opaque:  *)
(* a batch's loss, the outcome of the non-finite-gradient test and the     *)
(* mean evaluation loss are inputs drawn from small sets.  Floating-point  *)
(* values are kept as exact fractions <<numerator, denominator>>.          *)
(***************************************************************************)
EXTENDS Integers, Sequences, FiniteSets, TLC

\* ---------------------------------------------------------------- bounds
MaxExamples == 3
MaxEpochs == 2
MaxAccum == 2
MaxCalls == 4
MaxNan == 1

\* ---------------------------------------------------------------- inputs
\* Task names given on the command line: a known task and a name no
\* processor exists for.
TaskNames == {"wsdm_pseudo", "Bogus"}
\* Total batch sizes given on the command line: one that the accumulation
\* setting can bring down to 0, and one that it cannot.
TrainBatchSizes == {1, MaxAccum}
\* Loss-scale factors given on the command line (128 is the default).
LossScales == {1, 128}
\* Per-batch training losses the network may return.
Losses == {1, 2}
\* Mean evaluation losses: <<"num", t>> is the finite mean t / 10, NaN a
\* mean that is not a number.
NaN == <<"nan", 0>>
EvalLosses == {<<"num", t>> : t \in 6..9} \cup {NaN}

VARIABLES
  args,            \* the parsed argument namespace
  argv_task_name,  \* the task name as typed on the command line
  n_examples,      \* number of training examples in data_dir
  output_dir,      \* "empty" or "nonempty": the output directory on disk
  dir_created,     \* os.makedirs(output_dir) has run
  pc,              \* position in main
  err,             \* the exception that ended the run, "" if none
  bound,           \* the local names of main that have been assigned
  train_examples,  \* <<>> for None, <<n>> for n loaded training examples
  eval_loaded,     \* the dev examples have been loaded
  num_train_steps, \* <<>> for None, <<n>> for n planned optimizer updates
  model,           \* [weights |-> ..., updates |-> n]
  optimizer,       \* the optimizer has been built
  global_step,     \* the counter of line 360
  epoch,           \* the loop variable of line 372
  step,            \* index of the next batch of the running epoch
  tr_loss,         \* running sum of loss.item() of the epoch
  nb_tr_steps,     \* batches processed in the epoch
  train_losses,    \* the list of per-epoch recorded losses
  tune_losses,     \* the list of mean evaluation losses
  grads,           \* batches <<epoch, step>> summed into model .grad
  applied,         \* the batches whose summed gradient the latest
                   \* optimizer.step used
  nan_skips,       \* number of "Nan in gradients" log lines
  raw_losses,      \* per epoch, <<sum, count>> of the losses the network
                   \* returned
  saves,           \* calls of saver.save: [name |-> epoch, is_best |-> b]
  table_writes     \* number of times the probability table was written

vars == <<args, argv_task_name, n_examples, output_dir, dir_created, pc, err,
          bound, train_examples, eval_loaded, num_train_steps, model, optimizer,
          global_step, epoch, step, tr_loss, nb_tr_steps, train_losses,
          tune_losses, grads, applied, nan_skips, raw_losses, saves,
          table_writes>>

\* ------------------------------------------------------------- fractions
RECURSIVE GCD(_, _)
GCD(a, b) == IF b = 0 THEN a ELSE GCD(b, a % b)

Rat(n, d) == LET g == GCD(IF n < 0 THEN -n ELSE n, d)
             IN  IF n = 0 THEN <<0, 1>> ELSE <<n \div g, d \div g>>
RAdd(x, y) == Rat(x[1] * y[2] + y[1] * x[2], x[2] * y[2])
RMul(x, y) == Rat(x[1] * y[1], x[2] * y[2])
RDivInt(x, n) == Rat(x[1], x[2] * n)
RInt(n) == <<n, 1>>

\* ------------------------------------------------------- pure helpers
\* str.lower() on the task names used here
Lower(s) == IF s = "Bogus" THEN "bogus" ELSE s

processors == {"cola", "mnli", "mrpc", "wsdm", "arct", "wsdm_pseudo",
               "mnli_pseudo"}

\* int(a / b) for a >= 0, b > 0
IntDiv(a, b) == a \div b

\* len(train_dataloader): batches of one epoch
NumBatches(n, bs) == (n + bs - 1) \div bs

\* np.min(tune_losses): nan as soon as one element is nan
NpMin(s) ==
  IF \E i \in 1..Len(s) : s[i] = NaN THEN NaN
  ELSE CHOOSE m \in {s[i] : i \in 1..Len(s)} :
         \A i \in 1..Len(s) : m[2] <= s[i][2]

\* IsBest with a strict comparison against the earlier losses only
IsBestStrict(eval_loss, losses) ==
  /\ eval_loss # NaN
  /\ \A j \in 1..(Len(losses) - 1) :
       losses[j] # NaN /\ eval_loss[2] < losses[j][2]

\* eval_loss == np.min(tune_losses), line 60 (nan == nan is False)
IsBest(eval_loss, losses) ==
  /\ eval_loss # NaN
  /\ NpMin(losses) # NaN
  /\ eval_loss = NpMin(losses)

Raise(e) == /\ pc' = "error"
            /\ err' = e

\* ------------------------------------------------------------------ Init
\* The state when main() is entered: the command line has been typed, the
\* data directory and the output directory are what they are on disk.
ArgSpace ==
  [task_name : TaskNames,
   gradient_accumulation_steps : 0..MaxAccum,
   train_batch_size : TrainBatchSizes,
   num_train_epochs : 0..MaxEpochs,
   do_train : BOOLEAN,
   do_eval : BOOLEAN,
   fp16 : BOOLEAN,
   optimize_on_cpu : BOOLEAN,
   loss_scale : {RInt(s) : s \in LossScales},
   resume : BOOLEAN]

Idle ==
  /\ dir_created = FALSE
  /\ err = ""
  /\ train_examples = <<>>
  /\ eval_loaded = FALSE
  /\ num_train_steps = <<>>
  /\ model = [weights |-> "none", updates |-> 0]
  /\ optimizer = FALSE
  /\ global_step = 0
  /\ epoch = 0
  /\ step = 0
  /\ tr_loss = RInt(0)
  /\ nb_tr_steps = 0
  /\ train_losses = <<>>
  /\ grads = {}
  /\ applied = {}
  /\ nan_skips = 0
  /\ raw_losses = <<>>
  /\ saves = <<>>
  /\ table_writes = 0

Init ==
  /\ args \in ArgSpace
  /\ argv_task_name = args.task_name
  /\ n_examples \in 1..MaxExamples
  /\ output_dir \in {"empty", "nonempty"}
  /\ pc = "parse"
  /\ bound = {}
  /\ tune_losses = <<>>
  /\ Idle

\* ------------------------------------------------------ main: the checks
\* lines 189-190: parse_args(), then the task name is overwritten
ParseArgs ==
  /\ pc = "parse"
  /\ args' = [args EXCEPT !.task_name = "wsdm_pseudo"]
  /\ pc' = "check_accum"
  /\ UNCHANGED <<argv_task_name, n_examples, output_dir, dir_created, err,
                 bound, train_examples, eval_loaded, num_train_steps, model,
                 optimizer, global_step, epoch, step, tr_loss, nb_tr_steps,
                 train_losses, tune_losses, grads, applied, nan_skips,
                 raw_losses, saves, table_writes>>

\* lines 218-224
CheckAccum ==
  /\ pc = "check_accum"
  /\ IF args.gradient_accumulation_steps < 1
       THEN /\ Raise("ValueError: gradient_accumulation_steps")
            /\ UNCHANGED args
       ELSE /\ args' = [args EXCEPT !.train_batch_size =
                          IntDiv(args.train_batch_size,
                                 args.gradient_accumulation_steps)]
            /\ pc' = "check_train_eval"
            /\ UNCHANGED err
  /\ UNCHANGED <<bound, argv_task_name, n_examples, output_dir, dir_created,
                 train_examples, eval_loaded, num_train_steps, model,
                 optimizer, global_step, epoch, step, tr_loss, nb_tr_steps,
                 train_losses, tune_losses, grads, applied, nan_skips,
                 raw_losses, saves, table_writes>>

\* lines 232-233
CheckTrainEval ==
  /\ pc = "check_train_eval"
  /\ IF ~args.do_train /\ ~args.do_eval
       THEN Raise("ValueError: do_train or do_eval")
       ELSE /\ pc' = "check_output_dir"
            /\ UNCHANGED err
  /\ UNCHANGED <<bound, args, argv_task_name, n_examples, output_dir, dir_created,
                 train_examples, eval_loaded, num_train_steps, model,
                 optimizer, global_step, epoch, step, tr_loss, nb_tr_steps,
                 train_losses, tune_losses, grads, applied, nan_skips,
                 raw_losses, saves, table_writes>>

\* CheckOutputDir with the directory made before it is inspected
CheckOutputDirMakeFirst ==
  /\ pc = "check_output_dir"
  /\ dir_created' = TRUE
  /\ IF output_dir = "nonempty"
       THEN Raise("ValueError: output directory not empty")
       ELSE /\ pc' = "check_task"
            /\ UNCHANGED err
  /\ UNCHANGED <<bound, args, argv_task_name, n_examples, output_dir,
                 train_examples, eval_loaded, num_train_steps, model,
                 optimizer, global_step, epoch, step, tr_loss, nb_tr_steps,
                 train_losses, tune_losses, grads, applied, nan_skips,
                 raw_losses, saves, table_writes>>

\* lines 235-238
CheckOutputDir ==
  /\ pc = "check_output_dir"
  /\ IF output_dir = "nonempty"
       THEN /\ Raise("ValueError: output directory not empty")
            /\ UNCHANGED dir_created
       ELSE /\ dir_created' = TRUE
            /\ pc' = "check_task"
            /\ UNCHANGED err
  /\ UNCHANGED <<bound, args, argv_task_name, n_examples, output_dir,
                 train_examples, eval_loaded, num_train_steps, model,
                 optimizer, global_step, epoch, step, tr_loss, nb_tr_steps,
                 train_losses, tune_losses, grads, applied, nan_skips,
                 raw_losses, saves, table_writes>>

\* lines 240-247
CheckTask ==
  /\ pc = "check_task"
  /\ IF Lower(args.task_name) \notin processors
       THEN Raise("ValueError: Task not found")
       ELSE /\ pc' = "load_train"
            /\ UNCHANGED err
  /\ UNCHANGED <<bound, args, argv_task_name, n_examples, output_dir, dir_created,
                 train_examples, eval_loaded, num_train_steps, model,
                 optimizer, global_step, epoch, step, tr_loss, nb_tr_steps,
                 train_losses, tune_losses, grads, applied, nan_skips,
                 raw_losses, saves, table_writes>>

\* ------------------------------------------------------ main: the set-up
\* lines 251-257; a batch size of 0 makes line 256 divide by zero
LoadTrainExamples ==
  /\ pc = "load_train"
  /\ IF ~args.do_train
       THEN /\ pc' = "prepare_model"
            /\ UNCHANGED <<err, train_examples, num_train_steps>>
       ELSE /\ train_examples' = <<n_examples>>
            /\ IF args.train_batch_size = 0
                 THEN /\ Raise("ZeroDivisionError")
                      /\ UNCHANGED num_train_steps
                 ELSE /\ num_train_steps' =
                           <<IntDiv(n_examples * args.num_train_epochs,
                                    args.train_batch_size
                                      * args.gradient_accumulation_steps)>>
                      /\ pc' = "prepare_model"
                      /\ UNCHANGED err
  /\ UNCHANGED <<bound, args, argv_task_name, n_examples, output_dir, dir_created,
                 eval_loaded, model, optimizer, global_step, epoch, step,
                 tr_loss, nb_tr_steps, train_losses, tune_losses, grads,
                 applied, nan_skips, raw_losses, saves, table_writes>>

\* lines 259-280: from_pretrained, then saver.load of 'PseudoFirstLevel'
\* whatever args.resume and args.run_name say
PrepareModel ==
  /\ pc = "prepare_model"
  /\ model' = [weights |-> "PseudoFirstLevel", updates |-> 0]
  /\ pc' = "prepare_optimizer"
  /\ UNCHANGED <<bound, args, argv_task_name, n_examples, output_dir, dir_created,
                 err, train_examples, eval_loaded, num_train_steps,
                 optimizer, global_step, epoch, step, tr_loss, nb_tr_steps,
                 train_losses, tune_losses, grads, applied, nan_skips,
                 raw_losses, saves, table_writes>>

\* lines 282-308
PrepareOptimizer ==
  /\ pc = "prepare_optimizer"
  /\ optimizer' = TRUE
  /\ pc' = "load_data"
  /\ UNCHANGED <<bound, args, argv_task_name, n_examples, output_dir, dir_created,
                 err, train_examples, eval_loaded, num_train_steps, model,
                 global_step, epoch, step, tr_loss, nb_tr_steps,
                 train_losses, tune_losses, grads, applied, nan_skips,
                 raw_losses, saves, table_writes>>

\* lines 313-357.  With train_examples = None the call of line 316 is made
\* on None; what bert.util does with it is not fixed by this file, so both
\* outcomes are kept.
LoadData ==
  /\ pc = "load_data"
  /\ \E ok \in BOOLEAN :
       IF train_examples = <<>> /\ ~ok
         THEN /\ Raise("TypeError")
              /\ UNCHANGED eval_loaded
         ELSE /\ eval_loaded' = TRUE
              /\ pc' = "start"
              /\ UNCHANGED err
  /\ UNCHANGED <<bound, args, argv_task_name, n_examples, output_dir, dir_created,
                 train_examples, num_train_steps, model, optimizer,
                 global_step, epoch, step, tr_loss, nb_tr_steps,
                 train_losses, tune_losses, grads, applied, nan_skips,
                 raw_losses, saves, table_writes>>

\* ------------------------------------------------- main: the training loop
\* lines 360-371
StartTraining ==
  /\ pc = "start"
  /\ global_step' = 0
  /\ IF args.do_train
       THEN /\ tune_losses' = <<>>
            /\ train_losses' = <<>>
            /\ bound' = bound \cup {"global_step", "tune_losses",
                                    "train_losses"}
            /\ pc' = "epoch_loop"
       ELSE /\ bound' = bound \cup {"global_step"}
            /\ pc' = "predict"
            /\ UNCHANGED <<tune_losses, train_losses>>
  /\ UNCHANGED <<args, argv_task_name, n_examples, output_dir, dir_created,
                 err, train_examples, eval_loaded, num_train_steps, model,
                 optimizer, epoch, step, tr_loss, nb_tr_steps, grads,
                 applied, nan_skips, raw_losses, saves, table_writes>>

\* lines 372-374: the next value of trange(int(num_train_epochs)), or the
\* end of the loop.  Nothing else is reset here.
EpochStart ==
  /\ pc = "epoch_loop"
  /\ LET next == IF "epoch" \in bound THEN epoch + 1 ELSE 0
     IN  IF next < args.num_train_epochs
           THEN /\ epoch' = next
                /\ bound' = bound \cup {"epoch"}
                /\ tr_loss' = RInt(0)
                /\ nb_tr_steps' = 0
                /\ step' = 0
                /\ raw_losses' = Append(raw_losses, <<0, 0>>)
                /\ pc' = "batch"
           ELSE /\ pc' = "predict"
                /\ UNCHANGED <<epoch, bound, tr_loss, nb_tr_steps, step,
                               raw_losses>>
  /\ UNCHANGED <<args, argv_task_name, n_examples, output_dir, dir_created,
                 err, train_examples, eval_loaded, num_train_steps, model,
                 optimizer, global_step, train_losses, tune_losses, grads,
                 applied, nan_skips, saves, table_writes>>

\* lines 386-391: the loss that is back-propagated and summed into tr_loss
ScaledLoss(loss) ==
  LET l1 == IF args.fp16 /\ args.loss_scale # RInt(1)
              THEN RMul(RInt(loss), args.loss_scale)
              ELSE RInt(loss)
  IN  IF args.gradient_accumulation_steps > 1
        THEN RDivInt(l1, args.gradient_accumulation_steps)
        ELSE l1

\* line 396
AtBoundary == (step + 1) % args.gradient_accumulation_steps = 0

\* line 397
TestsNan == args.fp16 \/ args.optimize_on_cpu

\* line 411
Halve(s) == RDivInt(s, 2)

\* NanBackOff without the continue: the step counter still advances
NanBackOffCounted ==
  /\ args' = [args EXCEPT !.loss_scale = Halve(args.loss_scale)]
  /\ grads' = {}
  /\ nan_skips' = nan_skips + 1
  /\ global_step' = global_step + 1
  /\ UNCHANGED <<model, applied>>

\* lines 408-413: the back-off branch
NanBackOff ==
  /\ args' = [args EXCEPT !.loss_scale = Halve(args.loss_scale)]
  /\ grads' = {}
  /\ nan_skips' = nan_skips + 1
  /\ UNCHANGED <<model, applied, global_step>>

\* lines 414-420: optimizer.step(), zero_grad(), global_step += 1
Update(g) ==
  /\ applied' = g
  /\ model' = [model EXCEPT !.updates = model.updates + 1]
  /\ grads' = {}
  /\ global_step' = global_step + 1
  /\ UNCHANGED <<args, nan_skips>>

\* lines 375-420: one batch.  loss is what the network returns for the
\* batch, is_nan what set_optimizer_params_grad(test_nan=True) would find.
TrainStep(loss, is_nan) ==
  /\ pc = "batch"
  /\ step < NumBatches(train_examples[1], args.train_batch_size)
  /\ tr_loss' = RAdd(tr_loss, ScaledLoss(loss))
  /\ nb_tr_steps' = nb_tr_steps + 1
  /\ step' = step + 1
  /\ raw_losses' = [raw_losses EXCEPT ![Len(raw_losses)] =
                      <<@[1] + loss, @[2] + 1>>]
  /\ LET g == grads \cup {<<epoch, step>>}
     IN  IF AtBoundary
           THEN IF TestsNan /\ is_nan
                  THEN NanBackOff
                  ELSE Update(g)
           ELSE /\ grads' = g
                /\ UNCHANGED <<args, model, applied, global_step, nan_skips>>
  /\ UNCHANGED <<bound, argv_task_name, n_examples, output_dir, dir_created, pc,
                 err, train_examples, eval_loaded, num_train_steps,
                 optimizer, epoch, train_losses, tune_losses, saves,
                 table_writes>>

\* A non-finite gradient is found at most MaxNan times in a run.
TrainBatch ==
  \E loss \in Losses, is_nan \in BOOLEAN :
    /\ is_nan => nan_skips < MaxNan
    /\ TrainStep(loss, is_nan)

\* line 423: the value registered for the epoch
RegisteredLoss == RDivInt(tr_loss, nb_tr_steps)

\* lines 422-424, once the inner loop is exhausted
EpochEnd ==
  /\ pc = "batch"
  /\ step = NumBatches(train_examples[1], args.train_batch_size)
  /\ train_losses' = Append(train_losses, RegisteredLoss)
  /\ pc' = "epoch_loop"
  /\ UNCHANGED <<bound, args, argv_task_name, n_examples, output_dir, dir_created,
                 err, train_examples, eval_loaded, num_train_steps, model,
                 optimizer, global_step, epoch, step, tr_loss, nb_tr_steps,
                 tune_losses, grads, applied, nan_skips, raw_losses, saves,
                 table_writes>>

\* ------------------------------------------------------------------ tune
\* lines 23-65: one call of tune whose evaluation loop yields the mean
\* loss eval_loss; the table is written when save_preds is set, then the
\* checkpoint run_name + str(ep) is saved with the flag is_best.
Tune(ep, eval_loss, save_preds) ==
  LET losses == Append(tune_losses, eval_loss)
  IN  /\ tune_losses' = losses
      /\ table_writes' = IF save_preds THEN table_writes + 1
                                       ELSE table_writes
      /\ saves' = Append(saves, [name |-> ep,
                                 is_best |-> IsBest(eval_loss, losses)])

\* lines 426-428: epoch and tune_losses are read here; both are bound only
\* by the training branch (epoch only by a first epoch)
Predict ==
  /\ pc = "predict"
  /\ IF "epoch" \notin bound \/ "tune_losses" \notin bound
       THEN /\ Raise("UnboundLocalError")
            /\ UNCHANGED <<tune_losses, saves, table_writes>>
       ELSE /\ \E eval_loss \in EvalLosses : Tune(epoch + 1, eval_loss, TRUE)
            /\ pc' = "done"
            /\ UNCHANGED err
  /\ UNCHANGED <<bound, args, argv_task_name, n_examples, output_dir, dir_created,
                 train_examples, eval_loaded, num_train_steps, model,
                 optimizer, global_step, epoch, step, tr_loss, nb_tr_steps,
                 train_losses, grads, applied, nan_skips, raw_losses>>

\* ------------------------------------------------------- specifications
Next ==
  \/ ParseArgs
  \/ CheckAccum
  \/ CheckTrainEval
  \/ CheckOutputDir
  \/ CheckTask
  \/ LoadTrainExamples
  \/ PrepareModel
  \/ PrepareOptimizer
  \/ LoadData
  \/ StartTraining
  \/ EpochStart
  \/ TrainBatch
  \/ EpochEnd
  \/ Predict

Spec == Init /\ [][Next]_vars

\* A sequence of calls of tune that share one tune_losses list, as a
\* caller evaluating after each epoch makes them.
InitTune ==
  /\ args \in {a \in ArgSpace :
                 /\ a.task_name = "wsdm_pseudo"
                 /\ a.gradient_accumulation_steps = 1
                 /\ a.train_batch_size = 1
                 /\ a.num_train_epochs = MaxEpochs
                 /\ a.do_train /\ a.do_eval
                 /\ ~a.fp16 /\ ~a.optimize_on_cpu /\ ~a.resume
                 /\ a.loss_scale = RInt(128)}
  /\ argv_task_name = args.task_name
  /\ n_examples = 1
  /\ output_dir = "empty"
  /\ pc = "tune"
  /\ bound = {"tune_losses"}
  /\ tune_losses = <<>>
  /\ Idle

TuneCall ==
  /\ pc = "tune"
  /\ Len(tune_losses) < MaxCalls
  /\ \E eval_loss \in EvalLosses, save_preds \in BOOLEAN :
       Tune(Len(tune_losses) + 1, eval_loss, save_preds)
  /\ UNCHANGED <<bound, args, argv_task_name, n_examples, output_dir, dir_created,
                 pc, err, train_examples, eval_loaded, num_train_steps,
                 model, optimizer, global_step, epoch, step, tr_loss,
                 nb_tr_steps, train_losses, grads, applied, nan_skips,
                 raw_losses>>

NextTune == TuneCall

SpecTune == InitTune /\ [][NextTune]_vars

\* ================================================================ claims
ConfigErrors == {"ValueError: gradient_accumulation_steps",
                 "ValueError: do_train or do_eval",
                 "ValueError: output directory not empty",
                 "ValueError: Task not found"}

\* the positions of main up to and including the last configuration check
CheckPcs == {"parse", "check_accum", "check_train_eval", "check_output_dir",
             "check_task"}

InvalidConfig ==
  \/ args.gradient_accumulation_steps < 1
  \/ ~args.do_train /\ ~args.do_eval
  \/ output_dir = "nonempty"

NoWorkDone ==
  /\ train_examples = <<>>
  /\ ~eval_loaded
  /\ ~dir_created
  /\ model = [weights |-> "none", updates |-> 0]
  /\ ~optimizer
  /\ saves = <<>>
  /\ table_writes = 0

RECURSIVE SumCounts(_)
SumCounts(s) == IF s = <<>> THEN 0 ELSE Head(s)[2] + SumCounts(Tail(s))

\* total number of training batches processed so far
TotalSteps == SumCounts(raw_losses)

\* C1: in a finished training run without a non-finite gradient, the number
\* of optimizer updates and the final global_step equal
\* floor(total_steps / k).
C1_UpdatesAreTotalOverK ==
  (pc = "done" /\ nan_skips = 0) =>
    /\ global_step = TotalSteps \div args.gradient_accumulation_steps
    /\ model.updates = TotalSteps \div args.gradient_accumulation_steps

\* C2: when fp16 or optimize_on_cpu is on and a non-finite gradient is found
\* at an accumulation boundary, the loss scale becomes exactly half of what
\* it was, no optimizer step is made, global_step keeps its value, the
\* gradients are cleared and the loop goes on with the next batch.
C2_NanHalvesAndSkips ==
  [][ (pc = "batch" /\ AtBoundary /\ TestsNan
         /\ \E l \in Losses : TrainStep(l, TRUE)) =>
        /\ RMul(args'.loss_scale, RInt(2)) = args.loss_scale
        /\ model' = model
        /\ applied' = applied
        /\ global_step' = global_step
        /\ grads' = {}
        /\ nan_skips' = nan_skips + 1
        /\ pc' = "batch" /\ err' = "" /\ step' = step + 1 ]_vars

C2_Witness ==
  /\ pc = "batch"
  /\ nan_skips = 1
  /\ args.loss_scale = RInt(64)
  /\ global_step = 0
  /\ step = 1
  /\ grads = {}

\* IEEE comparison of two mean losses: false as soon as one is NaN
Less(x, y) == x # NaN /\ y # NaN /\ x[2] < y[2]
LessEq(x, y) == x # NaN /\ y # NaN /\ x[2] <= y[2]

Flags == [i \in 1..Len(saves) |-> saves[i].is_best]

\* C3 (as stated): over calls of tune sharing one tune_losses list, the
\* checkpoint is saved as best exactly when the call's mean loss is strictly
\* less than the mean loss of every earlier call (the first call always is).
C3_BestIffStrictlyLess ==
  /\ Len(saves) = Len(tune_losses)
  /\ \A i \in 1..Len(saves) :
       saves[i].is_best <=>
         \A j \in 1..(i - 1) : Less(tune_losses[i], tune_losses[j])

\* C3 (amended): the checkpoint is saved as best exactly when the call's
\* mean loss is a number, no earlier mean loss is NaN, and it is less than
\* or equal to every earlier mean loss; for [0.9, 0.7, 0.8, 0.6] the flag is
\* set on calls 1, 2 and 4 and not on call 3.
C3_BestIffNotGreater ==
  /\ Len(saves) = Len(tune_losses)
  /\ \A i \in 1..Len(saves) :
       saves[i].is_best <=>
         /\ tune_losses[i] # NaN
         /\ \A j \in 1..(i - 1) : LessEq(tune_losses[i], tune_losses[j])
  /\ tune_losses = <<<<"num", 9>>, <<"num", 7>>, <<"num", 8>>, <<"num", 6>>>>
       => Flags = <<TRUE, TRUE, FALSE, TRUE>>

C3_Witness ==
  /\ pc = "tune"
  /\ tune_losses = <<<<"num", 9>>, <<"num", 7>>, <<"num", 7>>, <<"num", 6>>>>
  /\ Flags = <<TRUE, TRUE, TRUE, TRUE>>

\* C4: started with gradient_accumulation_steps < 1, or with neither
\* do_train nor do_eval, or with a non-empty output directory, main never
\* gets past the configuration checks and ends in a configuration error
\* with no example loaded, no directory made, no model, optimizer or
\* checkpoint touched.
C4_InvalidConfigFailsFast ==
  InvalidConfig =>
    /\ NoWorkDone
    /\ pc \in (CheckPcs \ {"check_task"}) \cup {"error"}
    /\ pc = "error" => err \in ConfigErrors

C4_Witness ==
  /\ pc = "error"
  /\ err = "ValueError: output directory not empty"
  /\ args.gradient_accumulation_steps >= 1
  /\ args.do_train
  /\ NoWorkDone

\* C5: a task name on the command line that is not a known task makes the
\* run stop with 'Task not found' before any data is loaded.
C5_UnknownTaskFailsFast ==
  Lower(argv_task_name) \notin processors =>
    /\ pc \in CheckPcs \cup {"error"}
    /\ train_examples = <<>>
    /\ ~eval_loaded

\* C6: in a training run of E >= 1 epochs a checkpoint keyed by the epoch
\* number is saved after each epoch and before the next one starts, so a
\* completed run has made E saves.
C6_SaveAfterEachEpoch ==
  /\ pc = "batch" => Len(saves) = epoch
  /\ (pc = "done" /\ args.do_train /\ args.num_train_epochs >= 1) =>
       /\ Len(saves) = args.num_train_epochs
       /\ \A e \in 1..Len(saves) : saves[e].name = e

\* C7: a configuration that passes the configuration checks never ends in
\* an error, and a finished run has written the probability table exactly
\* once.
C7_ValidConfigCompletes ==
  /\ pc = "error" => err \in ConfigErrors
  /\ pc = "done" => table_writes = 1

\* the checkpoint a resumed run names: run_name + str(resume_epoch)
ResumeCheckpoint == "run_name+resume_epoch"

\* C8: a run resumed from a saved checkpoint with zero further epochs makes
\* no optimizer update, keeps the loaded checkpoint's model state and
\* completes its evaluation pass.
C8_ResumeZeroEpochs ==
  (args.resume /\ args.do_train /\ args.num_train_epochs = 0
     /\ pc \in {"predict", "done", "error"} /\ ~InvalidConfig) =>
    /\ model.updates = 0
    /\ model.weights = ResumeCheckpoint
    /\ pc # "error"

\* C9: without non-finite-gradient skips every optimizer update uses the
\* gradients of exactly k batches of one epoch, and the accumulated
\* gradients are empty when an epoch starts.
C9_UpdatesUseKBatchesOfOneEpoch ==
  nan_skips = 0 =>
    /\ applied # {} =>
         /\ Cardinality(applied) = args.gradient_accumulation_steps
         /\ \A a, b \in applied : a[1] = b[1]
    /\ (pc = "batch" /\ step = 0) => grads = {}

\* C10: the value appended to train_losses for an epoch is the sum of the
\* network's per-batch losses of that epoch divided by the number of its
\* batches, whatever k and the loss scale are.
C10_RegisteredLossIsMean ==
  \A e \in 1..Len(train_losses) :
    train_losses[e] = Rat(raw_losses[e][1], raw_losses[e][2])
====
